---------------------------- MODULE Spec2Model ----------------------------
(* A model of the PKI-backed 2FA microservice (jashinspires/pki-signed-2fa):  *)
(* seed validation, TOTP generation and verification, the seed file shared    *)
(* by the HTTP service and the command-line scripts, key generation and      *)
(* proof generation.                                                         *)
(*                                                                           *)
(* Text is a sequence of one-character strings.  A file is Absent or its     *)
(* content.  RSA is symbolic: a ciphertext names the key pair it was made    *)
(* for and decrypts only under that pair's private key.  A TOTP code is the  *)
(* pair of the normalised seed and the RFC 6238 counter it was computed      *)
(* for, so that codes of distinct steps (or seeds) are distinct.             *)
EXTENDS Integers, Sequences, FiniteSets, TLC

VARIABLES
    \* ---- validate_hex_seed applied to an input (SpecValidate)
    vIn, vPc, vOut,
    \* ---- generate_totp / verify_totp (SpecTotp)
    now,        \* the wall clock, in seconds since the epoch
    gSeed,      \* seed_hex passed to generate_totp and verify_totp
    gAt,        \* for_time passed to generate_totp (NoTime: omitted)
    gPc,        \* "idle", or "coded" once generate_totp has computed the code
    gCode,      \* the code a generate_totp call in progress has computed
    gOut,       \* what the last finished generate_totp call returned
    gFirst,     \* the code the first finished generate_totp call returned
    ver,        \* the verify_totp call that has just returned, if any
    \* ---- the seed file, the HTTP service and the scripts (SpecSeed)
    privFile,   \* the student private key file: "absent" or the key pair it holds
    encFile,    \* the encrypted-seed file
    seedFile,   \* the seed file
    cronLog,    \* the lines of the cron/audit log file
    apiPc,      \* the HTTP service: "idle", or "writing" inside _write_seed
    apiSeed,    \* the seed _write_seed is writing
    req,        \* the HTTP request handled last
    resp,       \* the response to it
    scrPc,      \* decrypt_seed.py: "idle", "validated", "opened"
    scrSeed,    \* the seed decrypt_seed.py has validated
    scrExit,    \* exit status of the last decrypt_seed.py run (-1: none yet)
    nRunTotpOk, \* number of /run-totp calls answered 200
    \* ---- generate_keys.py (SpecKeys)
    pubFile,    \* the student public key file: "absent" or the key pair it holds
    privMode,   \* permission bits of the private key file
    kgPc,       \* where each run of generate_keys.py stands
    kgKey,      \* the key pair each run has generated
    kgWrote,    \* the key files each run has written
    \* ---- generate_proof.py (SpecProof)
    instrPubFile,   \* the instructor public key file
    gitHead,        \* what `git rev-parse --verify HEAD` prints ("": it fails)
    pfFailAt,       \* the artifact whose write fails with an I/O error, if any
    commitHashFile, proofSigFile, proofSigEncFile, readmeFile, tarFile,
    pfPc,           \* where the run of generate_proof.py stands
    pfHash,         \* the commit hash the run holds
    pfWritten,      \* the artifacts the run has written
    \* ---- request_seed.send_request (SpecFetch)
    srPc,       \* where the call stands: "idle", "post", "check", "except",
                \* "sleep", "next", "after_loop", "returned", "raised"
    srAttempt,  \* the loop variable attempt
    srResponse, \* status of the response requests.post returned (0: none)
    srExc,      \* the exception the except clause is handling
    srLastExc,  \* last_exc
    srTrace,    \* what the call has done so far: requests sent, errors
                \* logged and sleeps
    srResult    \* what the call returned or raised

validateVars == <<vIn, vPc, vOut>>
totpVars == <<now, gSeed, gAt, gPc, gCode, gOut, gFirst, ver>>
seedRest == <<encFile, seedFile, cronLog, apiPc, apiSeed, req, resp,
              scrPc, scrSeed, scrExit, nRunTotpOk>>
seedVars == <<privFile, seedRest>>
keygenVars == <<pubFile, privMode, kgPc, kgKey, kgWrote>>
proofVars == <<instrPubFile, gitHead, pfFailAt, commitHashFile, proofSigFile,
               proofSigEncFile, readmeFile, tarFile, pfPc, pfHash, pfWritten>>
fetchVars == <<srPc, srAttempt, srResponse, srExc, srLastExc, srTrace, srResult>>
vars == <<validateVars, totpVars, seedVars, keygenVars, proofVars, fetchVars>>

----------------------------------------------------------------------------
(* Bounds                                                                    *)

\* longest freely chosen head of a candidate seed string
MaxHead == 2
\* the wall clock runs from WallStart to WallStart + MaxTime
WallStart == 1700000000
MaxTime == 62
\* explicit for_time values near the epoch: 0..MaxAt
MaxAt == 31
\* the audit log holds at most MaxLog lines
MaxLog == 1
\* at most MaxCalls /run-totp calls are counted
MaxCalls == 1
\* number of runs of generate_keys.py
NumRuns == 3

----------------------------------------------------------------------------
(* Text helpers                                                              *)

\* n copies of the character c
Rep(c, n) == [i \in 1..n |-> c]

\* the characters str.strip() removes (space, newline, tab)
Whitespace == {" ", "\n", "\t"}

HexDigits == {"0", "1", "2", "3", "4", "5", "6", "7", "8", "9",
              "a", "b", "c", "d", "e", "f", "A", "B", "C", "D", "E", "F"}

RECURSIVE FirstKept(_, _)
\* the first position at or after i that holds no whitespace (Len(s) + 1: none)
FirstKept(s, i) ==
    IF i > Len(s) THEN i
    ELSE IF s[i] \in Whitespace THEN FirstKept(s, i + 1) ELSE i

RECURSIVE LastKept(_, _)
\* the last position at or before i that holds no whitespace (0: none)
LastKept(s, i) ==
    IF i < 1 THEN i
    ELSE IF s[i] \in Whitespace THEN LastKept(s, i - 1) ELSE i

\* str.strip(): drop leading and trailing whitespace
Strip(s) == SubSeq(s, FirstKept(s, 1), LastKept(s, Len(s)))

LowerChar(c) ==
    CASE c = "A" -> "a" [] c = "B" -> "b" [] c = "C" -> "c"
      [] c = "D" -> "d" [] c = "E" -> "e" [] c = "F" -> "f"
      [] c = "G" -> "g" [] c = "X" -> "x"
      [] OTHER -> c

\* str.lower()
Lower(s) == [i \in 1..Len(s) |-> LowerChar(s[i])]

\* int(s, 16) of a stripped string: does it parse?  An optional sign, an
\* optional 0x/0X prefix (one underscore may follow it), then hex digits with
\* single underscores between digits only.
IntBase16Parses(s) ==
    LET n == Len(s)
        \* position of the first character after the sign
        p == IF n >= 1 /\ s[1] \in {"+", "-"} THEN 2 ELSE 1
        hasPrefix == p + 1 <= n /\ s[p] = "0" /\ s[p + 1] \in {"x", "X"}
        q == IF hasPrefix THEN p + 2 ELSE p
        \* position of the first digit
        d == IF hasPrefix /\ q <= n /\ s[q] = "_" THEN q + 1 ELSE q
    IN  /\ d <= n
        /\ \A i \in d..n :
              \/ s[i] \in HexDigits
              \/ /\ s[i] = "_"
                 /\ d < i /\ i < n
                 /\ s[i - 1] \in HexDigits
                 /\ s[i + 1] \in HexDigits

\* the length a seed must have
SEED_LEN == 64

Ok(v) == [ok |-> TRUE, value |-> v, error |-> ""]
Err(e) == [ok |-> FALSE, value |-> <<>>, error |-> e]

validate_hex_seed(seed) ==
    LET normalized == Strip(seed)
    IN  IF Len(normalized) # SEED_LEN
        THEN Err("Seed must be 64 hexadecimal characters long")
        ELSE IF ~IntBase16Parses(normalized)
        THEN Err("Seed must contain only hexadecimal characters")
        ELSE Ok(Lower(normalized))

----------------------------------------------------------------------------
(* TOTP: crypto_utils.generate_totp and verify_totp over pyotp               *)

\* for_time omitted (Python None)
NoTime == -1

\* pyotp.TOTP(..., interval=30)
TOTP_INTERVAL == 30
\* verify_totp(..., valid_window=1)
VALID_WINDOW == 1

HexVal(c) ==
    CASE c = "0" -> 0 [] c = "1" -> 1 [] c = "2" -> 2 [] c = "3" -> 3
      [] c = "4" -> 4 [] c = "5" -> 5 [] c = "6" -> 6 [] c = "7" -> 7
      [] c = "8" -> 8 [] c = "9" -> 9
      [] c \in {"a", "A"} -> 10 [] c \in {"b", "B"} -> 11
      [] c \in {"c", "C"} -> 12 [] c \in {"d", "D"} -> 13
      [] c \in {"e", "E"} -> 14 [] c \in {"f", "F"} -> 15

\* bytes.fromhex followed by base32 encoding; the base32 text stands for the
\* bytes it encodes (pyotp decodes it back before the HMAC)
hex_to_base32(hexstr) ==
    IF Len(hexstr) % 2 = 0 /\ \A i \in 1..Len(hexstr) : hexstr[i] \in HexDigits
    THEN Ok([i \in 1..(Len(hexstr) \div 2) |->
                16 * HexVal(hexstr[2 * i - 1]) + HexVal(hexstr[2 * i])])
    ELSE Err("non-hexadecimal number found in fromhex()")

\* pyotp timecode: the RFC 6238 counter of a time
TimeCode(t) == t \div TOTP_INTERVAL

\* pyotp at(t, counter_offset): the code of the secret at the step of t + offset
TotpAt(secret, t, offset) == [secret |-> secret, counter |-> TimeCode(t) + offset]

NoCode == [secret |-> <<>>, counter |-> -1]
NoOut == [called |-> FALSE, raised |-> FALSE, code |-> NoCode, remaining |-> -1]
NoVer == [called |-> FALSE, code |-> NoCode, at |-> -1, result |-> FALSE]

\* Python truthiness of for_time: None and 0 are both false
Truthy(t) == t # NoTime /\ t # 0

\* the secret generate_totp and verify_totp derive from seed_hex, or the error
\* raised on the way
TotpSecret(seed_hex) ==
    LET v == validate_hex_seed(seed_hex)
    IN  IF ~v.ok THEN v ELSE hex_to_base32(v.value)

\* code = totp.at(for_time) if for_time else totp.now()
CodeOf(secret, for_time, clock) ==
    IF Truthy(for_time) THEN TotpAt(secret, for_time, 0) ELSE TotpAt(secret, clock, 0)

\* now = int(for_time or datetime.now().timestamp()); remaining = ...
RemainingOf(for_time, clock) ==
    LET period == TOTP_INTERVAL
        t == IF Truthy(for_time) THEN for_time ELSE clock
        remaining == period - (t % period)
    IN  IF remaining = period THEN 0 ELSE remaining

\* a plausible slip: a window of 0 steps
WindowOffsetsNone == {0}
\* range(-valid_window, valid_window + 1)
WindowOffsets == (0 - VALID_WINDOW)..VALID_WINDOW

\* pyotp verify(code, valid_window) at wall-clock time clock
TotpVerify(secret, code, clock) ==
    \E i \in WindowOffsets : code = TotpAt(secret, clock, i)

\* verify_totp(seed_hex, code) at wall-clock time clock; [ok, value] with
\* value the boolean returned, or the error raised
verify_totp(seed_hex, code, clock) ==
    LET s == TotpSecret(seed_hex)
    IN  IF ~s.ok THEN s ELSE Ok(TotpVerify(s.value, code, clock))

SeedA == <<"0","1","2","3","4","5","6","7","8","9","a","b","c","d","e","f",
          "0","1","2","3","4","5","6","7","8","9","a","b","c","d","e","f",
          "0","1","2","3","4","5","6","7","8","9","a","b","c","d","e","f",
          "0","1","2","3","4","5","6","7","8","9","a","b","c","d","e","f">>
SeedB == Rep("B", 64)
SeedBad == Rep("g", 64)
SeedSigned == <<"+">> \o Rep("a", 63)
TotpSeeds == {SeedA, SeedBad, SeedSigned}

WallTimes == WallStart..(WallStart + MaxTime)
AtTimes == {NoTime} \cup (0..MaxAt) \cup WallTimes

\* a file that does not exist, and a file holding text
AbsentFile == [exists |-> FALSE, text |-> <<>>]
FileOf(text) == [exists |-> TRUE, text |-> text]

\* an encrypted seed as text: absent (Python None), empty, text that is not
\* Base64, or the Base64 of an RSA-OAEP ciphertext made for key pair `key`
\* whose plaintext is `plain` (utf8: whether the plaintext bytes decode)
NoEnc == [kind |-> "none", key |-> <<"absent", 0>>, utf8 |-> TRUE, plain |-> <<>>]
EmptyEnc == [kind |-> "empty", key |-> <<"absent", 0>>, utf8 |-> TRUE, plain |-> <<>>]
NotBase64 == [kind |-> "notb64", key |-> <<"absent", 0>>, utf8 |-> TRUE, plain |-> <<>>]
Cipher(key, utf8, plain) == [kind |-> "cipher", key |-> key, utf8 |-> utf8, plain |-> plain]

\* a submitted code field: absent (None), "", blanks only, or a code
NoField == [kind |-> "none", code |-> NoCode]
EmptyField == [kind |-> "empty", code |-> NoCode]
BlankField == [kind |-> "blank", code |-> NoCode]
CodeField(c) == [kind |-> "code", code |-> c]

NoReq == [endpoint |-> "", enc |-> NoEnc, code |-> NoField, totp |-> NoField]
NoResp == [endpoint |-> "", status |-> 0, valid |-> FALSE, code |-> NoCode,
           remaining |-> -1, read |-> AbsentFile]

ValidateIdle == vIn = <<>> /\ vPc = "ready" /\ vOut = Err("")

\* the seed file, the service and the scripts before anything has run
SeedRestIdle ==
    /\ encFile = [exists |-> FALSE, enc |-> NoEnc]
    /\ seedFile = AbsentFile
    /\ cronLog = <<>>
    /\ apiPc = "idle"
    /\ apiSeed = <<>>
    /\ req = NoReq
    /\ resp = NoResp
    /\ scrPc = "idle"
    /\ scrSeed = <<>>
    /\ scrExit = -1
    /\ nRunTotpOk = 0

SeedIdle ==
    /\ privFile = <<"absent", 0>>
    /\ SeedRestIdle

\* the runs of generate_keys.py
KeygenRuns == 1..NumRuns

KeygenIdle ==
    /\ pubFile = <<"absent", 0>>
    /\ privMode = "none"
    /\ kgPc = [p \in KeygenRuns |-> "start"]
    /\ kgKey = [p \in KeygenRuns |-> <<"absent", 0>>]
    /\ kgWrote = [p \in KeygenRuns |-> {}]

\* an artifact of generate_proof.py: absent, or its content as a tuple of words
NoArtifact == [exists |-> FALSE, data |-> <<>>]
Artifact(data) == [exists |-> TRUE, data |-> data]

ProofIdle ==
    /\ instrPubFile = <<"absent", 0>>
    /\ gitHead = ""
    /\ pfFailAt = "none"
    /\ commitHashFile = NoArtifact
    /\ proofSigFile = NoArtifact
    /\ proofSigEncFile = NoArtifact
    /\ readmeFile = NoArtifact
    /\ tarFile = NoArtifact
    /\ pfPc = "start"
    /\ pfHash = ""
    /\ pfWritten = {}

\* an exception: its type and, for an HTTPError, the status it reports
NoExc == [type |-> "", status |-> 0]
NoResult == [kind |-> "", status |-> 0, exc |-> NoExc]

FetchIdle ==
    /\ srPc = "idle"
    /\ srAttempt = 0
    /\ srResponse = 0
    /\ srExc = NoExc
    /\ srLastExc = NoExc
    /\ srTrace = <<>>
    /\ srResult = NoResult

TotpIdle ==
    /\ now = WallStart
    /\ gSeed = <<>>
    /\ gAt = NoTime
    /\ gPc = "idle"
    /\ gCode = NoCode
    /\ gOut = NoOut
    /\ gFirst = NoCode
    /\ ver = NoVer

InitTotp ==
    /\ now \in WallTimes
    /\ gSeed \in TotpSeeds
    /\ gAt \in AtTimes
    /\ gPc = "idle"
    /\ gCode = NoCode
    /\ gOut = NoOut
    /\ gFirst = NoCode
    /\ ver = NoVer
    /\ ValidateIdle
    /\ SeedIdle
    /\ KeygenIdle
    /\ ProofIdle
    /\ FetchIdle

\* the wall clock advances by a second
Tick ==
    /\ now < WallStart + MaxTime
    /\ now' = now + 1
    /\ ver' = NoVer
    /\ UNCHANGED <<gSeed, gAt, gPc, gCode, gOut, gFirst>>
    /\ UNCHANGED <<validateVars, seedVars, keygenVars, proofVars, fetchVars>>

\* generate_totp, up to and including the computation of the code
GenerateCode ==
    /\ gPc = "idle"
    /\ LET s == TotpSecret(gSeed)
       IN  IF ~s.ok
           THEN /\ gOut' = [called |-> TRUE, raised |-> TRUE,
                            code |-> NoCode, remaining |-> -1]
                /\ UNCHANGED <<gPc, gCode>>
           ELSE /\ gCode' = CodeOf(s.value, gAt, now)
                /\ gPc' = "coded"
                /\ UNCHANGED gOut
    /\ ver' = NoVer
    /\ UNCHANGED <<now, gSeed, gAt, gFirst>>
    /\ UNCHANGED <<validateVars, seedVars, keygenVars, proofVars, fetchVars>>

\* generate_totp, from the second reading of the time to the return
GenerateReturn ==
    /\ gPc = "coded"
    /\ gOut' = [called |-> TRUE, raised |-> FALSE, code |-> gCode,
                remaining |-> RemainingOf(gAt, now)]
    /\ gFirst' = IF gFirst = NoCode THEN gCode ELSE gFirst
    /\ gPc' = "idle"
    /\ gCode' = NoCode
    /\ ver' = NoVer
    /\ UNCHANGED <<now, gSeed, gAt>>
    /\ UNCHANGED <<validateVars, seedVars, keygenVars, proofVars, fetchVars>>

\* verify_totp on the code the last generate_totp call returned
Verify ==
    /\ gOut.called /\ ~gOut.raised
    /\ LET r == verify_totp(gSeed, gOut.code, now)
       IN  /\ r.ok
           /\ ver' = [called |-> TRUE, code |-> gOut.code, at |-> now,
                      result |-> r.value]
    /\ UNCHANGED <<now, gSeed, gAt, gPc, gCode, gOut, gFirst>>
    /\ UNCHANGED <<validateVars, seedVars, keygenVars, proofVars, fetchVars>>

NextTotp == Tick \/ GenerateCode \/ GenerateReturn \/ Verify

SpecTotp == InitTotp /\ [][NextTotp]_vars

(* C12: a generate_totp call without an explicit time returns a code and a  *)
(* seconds-remaining value of the same 30-second step: whatever the wall    *)
(* clock does during the call, the code returned is the code of the step   *)
(* in which the remaining seconds were computed.                           *)
C12_CodeAndRemainingSameStep ==
    [][(gPc = "coded" /\ gPc' = "idle" /\ gAt = NoTime) =>
          /\ gOut'.code = TotpAt(gOut'.code.secret, now', 0)
          /\ gOut'.remaining = RemainingOf(NoTime, now')]_vars

\* the times a code may have been computed for
CodeTimes == (0..MaxAt) \cup WallTimes

Dist(a, b) == IF a >= b THEN a - b ELSE b - a

(* C5: with the default window of 1, a code that is the TOTP of the seed at  *)
(* time t is accepted by verify_totp at every time t' with |t' - t| <= 30    *)
(* and refused at every time t' with |t' - t| >= 61.                         *)
C5_WindowTolerance ==
    ver.called =>
        \A t \in CodeTimes :
            ver.code = TotpAt(ver.code.secret, t, 0) =>
                /\ Dist(ver.at, t) <= 30 => ver.result
                /\ Dist(ver.at, t) >= 61 => ~ver.result

\* verify_totp accepted a code a full 30 seconds away from its time
C5_Witness ==
    /\ ver.called
    /\ ver.result
    /\ \E t \in CodeTimes :
          /\ ver.code = TotpAt(ver.code.secret, t, 0)
          /\ Dist(ver.at, t) = 30

(* C6: for every valid seed and every supplied time atTime >= 0, 0 included, *)
(* generate_totp returns the code of step floor(atTime / 30), the same on    *)
(* every call whatever the wall clock shows.                                 *)
C6_GenerateDeterministic ==
    (gOut.called /\ ~gOut.raised /\ gAt # NoTime) =>
        /\ gOut.code = gFirst
        /\ gOut.code = [secret |-> gOut.code.secret, counter |-> gAt \div 30]

(* C7: for every valid seed and every supplied time atTime >= 0 the seconds  *)
(* remaining returned by generate_totp are 30 - (atTime mod 30), or 0 when   *)
(* atTime is on a window boundary; the value is in 0..29.                    *)
C7_RemainingOfSuppliedTime ==
    (gOut.called /\ ~gOut.raised /\ gAt # NoTime) =>
        /\ gOut.remaining = IF gAt % 30 = 0 THEN 0 ELSE 30 - (gAt % 30)
        /\ gOut.remaining \in 0..29

----------------------------------------------------------------------------
(* SpecValidate: validate_hex_seed applied to candidate strings              *)

\* characters a candidate's head and tail are drawn from
HeadChars == {"0", "a", "F", "g", "+", "-", "_", "x", " "}
TailChars == {"_", " ", "\n", "g"}

Heads == UNION {[1..n -> HeadChars] : n \in 0..MaxHead}
Tails == {<<>>} \cup {<<c>> : c \in TailChars}

\* candidates: a head, a run of one hex digit, a tail; the whole of length
\* SEED_LEN - 1, SEED_LEN or SEED_LEN + 1 before the surrounding blanks
Candidates ==
    {h \o Rep(c, n - Len(h) - Len(t)) \o t :
        h \in Heads, t \in Tails, c \in {"a", "B"},
        n \in {SEED_LEN - 1, SEED_LEN, SEED_LEN + 1}}

InitValidate ==
    /\ vIn \in Candidates
    /\ vPc = "ready"
    /\ vOut = Err("")
    /\ TotpIdle
    /\ SeedIdle
    /\ KeygenIdle
    /\ ProofIdle
    /\ FetchIdle

Validate ==
    /\ vPc = "ready"
    /\ vOut' = validate_hex_seed(vIn)
    /\ vPc' = "returned"
    /\ UNCHANGED vIn
    /\ UNCHANGED <<totpVars, seedVars, keygenVars, proofVars, fetchVars>>

NextValidate == Validate

SpecValidate == InitValidate /\ [][NextValidate]_vars

\* ^[0-9a-fA-F]{64}$
MatchesSeedPattern(s) ==
    /\ Len(s) = 64
    /\ \A i \in 1..Len(s) : s[i] \in HexDigits

(* C4: validate_hex_seed accepts exactly the strings that match              *)
(* ^[0-9a-fA-F]{64}$ after trimming, returning their lowercase form, and     *)
(* rejects every other string.                                               *)
C4_ValidateExactlyHex64 ==
    vPc = "returned" =>
        IF MatchesSeedPattern(Strip(vIn))
        THEN vOut = Ok(Lower(Strip(vIn)))
        ELSE ~vOut.ok

----------------------------------------------------------------------------
(* SpecSeed: the seed file shared by the HTTP service (app/main.py), the     *)
(* decrypt_seed.py script and the cron script.  The handlers are async       *)
(* functions that never await, so the service runs one handler at a time;    *)
(* the scripts are other processes and interleave with it at every file      *)
(* operation.  Path.write_text opens the file for writing, which truncates   *)
(* it, and then writes the text: two steps to every other process.           *)

\* what a key file holds: nothing (the file is absent), text that is no PEM
\* key, or a key pair; the pair generated by run p of generate_keys.py is
\* <<"G", p>>
NoKey == <<"absent", 0>>
GarbageKey == <<"garbage", 0>>
GeneratedKey(p) == <<"G", p>>
\* the key pair of the service, and other ones
LocalKey == <<"K", 1>>
OtherKey == <<"K", 2>>
InstructorKey == <<"K", 3>>

\* rsa_oaep_decrypt: load the key, Base64-decode, OAEP-decrypt
rsa_oaep_decrypt(keyFile, enc) ==
    IF keyFile = NoKey THEN Err("FileNotFoundError")
    ELSE IF keyFile = GarbageKey THEN Err("ValueError: Could not deserialize key data")
    ELSE IF enc.kind = "notb64" THEN Err("binascii.Error")
    ELSE IF enc.kind # "cipher" THEN Err("ValueError: Ciphertext length must be equal to key size")
    ELSE IF enc.key # keyFile THEN Err("ValueError: Decryption failed")
    ELSE Ok([utf8 |-> enc.utf8, text |-> enc.plain])

\* a plausible slip: the decrypted text is used without validation
DecryptedSeedUnvalidated(keyFile, enc) ==
    LET b == rsa_oaep_decrypt(keyFile, enc)
    IN  IF ~b.ok THEN b
        ELSE IF ~b.value.utf8 THEN Err("UnicodeDecodeError")
        ELSE Ok(b.value.text)

\* rsa_oaep_decrypt(...).decode("utf-8") followed by validate_hex_seed
DecryptedSeed(keyFile, enc) ==
    LET b == rsa_oaep_decrypt(keyFile, enc)
    IN  IF ~b.ok THEN b
        ELSE IF ~b.value.utf8 THEN Err("UnicodeDecodeError")
        ELSE validate_hex_seed(b.value.text)

\* _read_seed: the validated seed, or the error of the HTTPException(500)
_read_seed ==
    IF ~seedFile.exists THEN Err("Seed not decrypted yet")
    ELSE validate_hex_seed(Strip(seedFile.text))

\* _append_log / the cron script's append: one more line in the log file
AppendLog(line) == cronLog' = Append(cronLog, line)

\* the key pair of the service, and another one

\* seed texts that arrive encrypted
SeedBPadded == <<" ">> \o SeedB \o <<"\n">>
Plaintexts == {SeedA, SeedBPadded, SeedBad}

\* encrypted seeds a request body or the encrypted-seed file may hold
Ciphertexts ==
    {Cipher(LocalKey, TRUE, p) : p \in Plaintexts}
        \cup {Cipher(OtherKey, TRUE, SeedA), Cipher(LocalKey, FALSE, SeedA)}
Bodies == {NoEnc, EmptyEnc, NotBase64} \cup Ciphertexts
EncFiles ==
    {[exists |-> FALSE, enc |-> NoEnc]}
        \cup {[exists |-> TRUE, enc |-> e] :
                e \in {NotBase64, Cipher(LocalKey, TRUE, SeedBPadded)}}

\* codes a client submits: the current code of SeedA, and one that is no code
JunkCode == [secret |-> <<>>, counter |-> -2]
CurrentCode == CodeField(TotpAt(hex_to_base32(SeedA).value, now, 0))
CodeFields == {NoField, BlankField, CurrentCode}
TotpFields == {NoField, EmptyField, CodeField(JunkCode)}

InitSeed ==
    /\ privFile = LocalKey
    /\ encFile \in EncFiles
    /\ seedFile = AbsentFile
    /\ cronLog = <<>>
    /\ apiPc = "idle"
    /\ apiSeed = <<>>
    /\ req = NoReq
    /\ resp = NoResp
    /\ scrPc = "idle"
    /\ scrSeed = <<>>
    /\ scrExit = -1
    /\ nRunTotpOk = 0
    /\ ValidateIdle
    /\ TotpIdle
    /\ KeygenIdle
    /\ ProofIdle
    /\ FetchIdle

OnlySeed == UNCHANGED <<validateVars, totpVars, privFile, encFile, keygenVars, proofVars, fetchVars>>

Response(endpoint, status) ==
    [endpoint |-> endpoint, status |-> status, valid |-> FALSE, code |-> NoCode,
     remaining |-> -1, read |-> AbsentFile]

\* GET /health
health ==
    /\ apiPc = "idle"
    /\ req' = [NoReq EXCEPT !.endpoint = "/health"]
    /\ resp' = Response("/health", 200)
    /\ UNCHANGED <<seedFile, cronLog, apiPc, apiSeed, scrPc, scrSeed, scrExit, nRunTotpOk>>
    /\ OnlySeed

\* POST /decrypt-seed, up to the opening of the seed file by _write_seed
decrypt_seed ==
    /\ apiPc = "idle"
    /\ \E body \in Bodies :
          LET supplied == body.kind \notin {"none", "empty"}
              encrypted_seed == IF supplied THEN body ELSE encFile.enc
              r == DecryptedSeed(privFile, encrypted_seed)
          IN  /\ req' = [NoReq EXCEPT !.endpoint = "/decrypt-seed", !.enc = body]
              /\ IF ~supplied /\ ~encFile.exists
                 THEN /\ resp' = Response("/decrypt-seed", 400)
                      /\ UNCHANGED <<seedFile, apiPc, apiSeed>>
                 ELSE IF ~r.ok
                 THEN /\ resp' = Response("/decrypt-seed", 500)
                      /\ UNCHANGED <<seedFile, apiPc, apiSeed>>
                 ELSE /\ seedFile' = FileOf(<<>>)
                      /\ apiSeed' = r.value
                      /\ apiPc' = "writing"
                      /\ resp' = NoResp
    /\ UNCHANGED <<cronLog, scrPc, scrSeed, scrExit, nRunTotpOk>>
    /\ OnlySeed

\* POST /decrypt-seed, from the write of the seed text to the response
decrypt_seed_write ==
    /\ apiPc = "writing"
    /\ seedFile' = FileOf(apiSeed)
    /\ apiPc' = "idle"
    /\ apiSeed' = <<>>
    /\ resp' = Response("/decrypt-seed", 200)
    /\ UNCHANGED <<cronLog, req, scrPc, scrSeed, scrExit, nRunTotpOk>>
    /\ OnlySeed

\* _build_totp_payload answering endpoint: the response
_build_totp_payload(endpoint) ==
    LET seed == _read_seed
        secret == hex_to_base32(seed.value)
    IN  IF ~seed.ok
        THEN [Response(endpoint, 500) EXCEPT !.read = seedFile]
        ELSE IF ~secret.ok
        THEN [Response(endpoint, 500) EXCEPT !.read = seedFile]
        ELSE [Response(endpoint, 200) EXCEPT
                 !.code = CodeOf(secret.value, NoTime, now),
                 !.remaining = RemainingOf(NoTime, now),
                 !.read = seedFile]

\* GET /generate-2fa
generate_2fa ==
    /\ apiPc = "idle"
    /\ req' = [NoReq EXCEPT !.endpoint = "/generate-2fa"]
    /\ resp' = _build_totp_payload("/generate-2fa")
    /\ UNCHANGED <<seedFile, cronLog, apiPc, apiSeed, scrPc, scrSeed, scrExit, nRunTotpOk>>
    /\ OnlySeed

\* GET /generate-totp
generate_totp_alias ==
    /\ apiPc = "idle"
    /\ req' = [NoReq EXCEPT !.endpoint = "/generate-totp"]
    /\ resp' = _build_totp_payload("/generate-totp")
    /\ UNCHANGED <<seedFile, cronLog, apiPc, apiSeed, scrPc, scrSeed, scrExit, nRunTotpOk>>
    /\ OnlySeed

\* POST /run-totp
run_totp ==
    /\ apiPc = "idle"
    /\ nRunTotpOk < MaxCalls
    /\ req' = [NoReq EXCEPT !.endpoint = "/run-totp"]
    /\ resp' = _build_totp_payload("/run-totp")
    /\ nRunTotpOk' = IF resp'.status = 200 THEN nRunTotpOk + 1 ELSE nRunTotpOk
    /\ UNCHANGED <<seedFile, cronLog, apiPc, apiSeed, scrPc, scrSeed, scrExit>>
    /\ OnlySeed

\* _verify_code answering endpoint: the response and the log line, if any
_verify_code(endpoint, field) ==
    LET seed == _read_seed
        secret == hex_to_base32(seed.value)
    IN  IF ~seed.ok \/ ~secret.ok
        THEN /\ resp' = [Response(endpoint, 500) EXCEPT !.read = seedFile]
             /\ UNCHANGED cronLog
        ELSE LET result == /\ field.kind = "code"
                           /\ TotpVerify(secret.value, field.code, now)
             IN  /\ Len(cronLog) < MaxLog
                 /\ AppendLog([kind |-> "verify", result |-> result])
                 /\ resp' = [Response(endpoint, 200) EXCEPT
                                !.valid = result, !.read = seedFile]

\* POST /verify-2fa
verify_2fa ==
    /\ apiPc = "idle"
    /\ \E c \in CodeFields, t \in TotpFields :
          LET chosen == IF c.kind \in {"none", "empty"} THEN t ELSE c
              code == IF chosen.kind = "code" THEN chosen ELSE EmptyField
          IN  /\ req' = [NoReq EXCEPT !.endpoint = "/verify-2fa", !.code = c, !.totp = t]
              /\ IF code.kind # "code"
                 THEN /\ resp' = Response("/verify-2fa", 400)
                      /\ UNCHANGED cronLog
                 ELSE _verify_code("/verify-2fa", code)
    /\ UNCHANGED <<seedFile, apiPc, apiSeed, scrPc, scrSeed, scrExit, nRunTotpOk>>
    /\ OnlySeed

\* POST /verify (the totp field is required, any string)
verify_alias ==
    /\ apiPc = "idle"
    /\ \E t \in (CodeFields \cup TotpFields) \ {NoField} :
          /\ req' = [NoReq EXCEPT !.endpoint = "/verify", !.totp = t]
          /\ _verify_code("/verify", t)
    /\ UNCHANGED <<seedFile, apiPc, apiSeed, scrPc, scrSeed, scrExit, nRunTotpOk>>
    /\ OnlySeed

\* decrypt_seed.py main, up to the validation of the decrypted seed
script_decrypt ==
    /\ scrPc = "idle"
    /\ LET r == DecryptedSeed(privFile, encFile.enc)
       IN  IF ~encFile.exists \/ ~r.ok
           THEN /\ scrExit' = 1
                /\ UNCHANGED <<scrPc, scrSeed>>
           ELSE /\ scrSeed' = r.value
                /\ scrPc' = "validated"
                /\ scrExit' = -1
    /\ UNCHANGED <<seedFile, cronLog, apiPc, apiSeed, req, resp, nRunTotpOk>>
    /\ OnlySeed

\* decrypt_seed.py main: write_text opens (and truncates) the seed file
script_open ==
    /\ scrPc = "validated"
    /\ seedFile' = FileOf(<<>>)
    /\ scrPc' = "opened"
    /\ UNCHANGED <<cronLog, apiPc, apiSeed, req, resp, scrSeed, scrExit, nRunTotpOk>>
    /\ OnlySeed

\* decrypt_seed.py main: write_text writes the seed; the script ends
script_write ==
    /\ scrPc = "opened"
    /\ seedFile' = FileOf(scrSeed)
    /\ scrPc' = "idle"
    /\ scrSeed' = <<>>
    /\ scrExit' = 0
    /\ UNCHANGED <<cronLog, apiPc, apiSeed, req, resp, nRunTotpOk>>
    /\ OnlySeed

\* log_2fa_cron.py main: read the seed, append the current code to the log
cron_main ==
    /\ Len(cronLog) < MaxLog
    /\ _read_seed.ok
    /\ hex_to_base32(_read_seed.value).ok
    /\ AppendLog([kind |-> "cron", result |-> TRUE])
    /\ UNCHANGED <<seedFile, apiPc, apiSeed, req, resp, scrPc, scrSeed, scrExit, nRunTotpOk>>
    /\ OnlySeed

NextSeed ==
    \/ health
    \/ decrypt_seed
    \/ decrypt_seed_write
    \/ generate_2fa
    \/ generate_totp_alias
    \/ run_totp
    \/ verify_2fa
    \/ verify_alias
    \/ script_decrypt
    \/ script_open
    \/ script_write
    \/ cron_main

SpecSeed == InitSeed /\ [][NextSeed]_vars

\* the seeds a decrypted ciphertext can validate to
CompleteSeeds ==
    {validate_hex_seed(p).value : p \in {q \in Plaintexts : validate_hex_seed(q).ok}}

(* C1: whatever the interleaving of a seed write with the reads of           *)
(* _read_seed, a read never returns an empty or truncated seed file: what    *)
(* it returns is a complete seed, the previous one or the new one.           *)
C1_NoPartialRead ==
    resp.read.exists => resp.read.text \in CompleteSeeds

\* the input of the last request is missing or malformed
BadInput ==
    \/ /\ req.endpoint = "/decrypt-seed"
       /\ LET supplied == req.enc.kind \notin {"none", "empty"}
              encrypted_seed == IF supplied THEN req.enc ELSE encFile.enc
          IN  \/ ~supplied /\ ~encFile.exists
              \/ encrypted_seed.kind = "notb64"
    \/ /\ req.endpoint = "/verify-2fa"
       /\ req.code.kind \in {"none", "empty"}
       /\ req.totp.kind \in {"none", "empty"}

\* server-side state is what made the last request fail
ServerProblem ==
    \/ /\ req.endpoint = "/decrypt-seed"
       /\ LET supplied == req.enc.kind \notin {"none", "empty"}
          IN  ~DecryptedSeed(privFile, IF supplied THEN req.enc ELSE encFile.enc).ok
    \/ /\ req.endpoint \in {"/verify-2fa", "/verify"}
       /\ \/ ~resp.read.exists
          \/ ~validate_hex_seed(Strip(resp.read.text)).ok

(* C8: a /decrypt-seed call or a decrypt_seed.py run whose decryption or     *)
(* validation fails leaves the seed file exactly as it was, and the seed     *)
(* file never holds anything but a decrypted and validated seed (or nothing  *)
(* yet, while it is being written).                                          *)
C8_FailureLeavesSeedFile ==
    /\ [](seedFile.exists =>
            \/ seedFile.text = <<>>
            \/ /\ validate_hex_seed(seedFile.text).ok
               /\ validate_hex_seed(seedFile.text).value = seedFile.text)
    /\ [][(\/ /\ <<req, resp>>' # <<req, resp>>
              /\ resp'.endpoint = "/decrypt-seed"
              /\ resp'.status # 200
           \/ /\ scrExit' # scrExit
              /\ scrExit' = 1)
          => seedFile' = seedFile]_vars

\* a /decrypt-seed call failed under a seed file that holds an earlier seed
C8_Witness ==
    /\ resp.endpoint = "/decrypt-seed"
    /\ resp.status = 500
    /\ scrExit = 1
    /\ seedFile.exists
    /\ seedFile.text \in CompleteSeeds

(* C9: /decrypt-seed, /verify-2fa and /verify answer 400 when the request    *)
(* input is missing or malformed (no code or totp, no encrypted seed in the  *)
(* body or the file, an encrypted seed that is not Base64), and 500 only     *)
(* when the input is well-formed and server-side state is the problem.       *)
C9_StatusMapping ==
    resp.endpoint \in {"/decrypt-seed", "/verify-2fa", "/verify"} =>
        /\ BadInput => resp.status = 400
        /\ resp.status = 500 => (~BadInput /\ ServerProblem)

\* the audit-log lines a /run-totp call wrote
RunTotpLines == {i \in 1..Len(cronLog) : cronLog[i].kind \notin {"verify", "cron"}}

(* C10: every successful /run-totp call appends exactly one line to the      *)
(* audit log: the log holds as many /run-totp lines as there were            *)
(* successful /run-totp calls.                                               *)
C10_RunTotpLogged ==
    Cardinality(RunTotpLines) = nRunTotpOk

----------------------------------------------------------------------------
(* SpecKeys: runs of scripts/generate_keys.py, each a process of its own.    *)
(* Every file operation of a run is a step other runs interleave with.       *)

InitKeys ==
    /\ \E files \in {<<NoKey, NoKey>>, <<LocalKey, LocalKey>>,
                     <<NoKey, LocalKey>>, <<LocalKey, NoKey>>} :
          /\ privFile = files[1]
          /\ pubFile = files[2]
    /\ privMode = IF privFile = NoKey THEN "none" ELSE "0600"
    /\ kgPc = [p \in KeygenRuns |-> "start"]
    /\ kgKey = [p \in KeygenRuns |-> NoKey]
    /\ kgWrote = [p \in KeygenRuns |-> {}]
    /\ ValidateIdle
    /\ TotpIdle
    /\ SeedRestIdle
    /\ ProofIdle
    /\ FetchIdle

OnlyKeys == UNCHANGED <<validateVars, totpVars, seedRest, proofVars, fetchVars>>

\* main: `private_path.exists() or ...`
kg_check_private(p) ==
    /\ kgPc[p] = "start"
    /\ kgPc' = [kgPc EXCEPT ![p] = IF privFile # NoKey THEN "aborted" ELSE "checked_private"]
    /\ UNCHANGED <<privFile, pubFile, privMode, kgKey, kgWrote>>
    /\ OnlyKeys

\* main: `... or public_path.exists()`
kg_check_public(p) ==
    /\ kgPc[p] = "checked_private"
    /\ kgPc' = [kgPc EXCEPT ![p] = IF pubFile # NoKey THEN "aborted" ELSE "checked"]
    /\ UNCHANGED <<privFile, pubFile, privMode, kgKey, kgWrote>>
    /\ OnlyKeys

\* main: generate_rsa_keypair
kg_generate(p) ==
    /\ kgPc[p] = "checked"
    /\ kgKey' = [kgKey EXCEPT ![p] = GeneratedKey(p)]
    /\ kgPc' = [kgPc EXCEPT ![p] = "generated"]
    /\ UNCHANGED <<privFile, pubFile, privMode, kgWrote>>
    /\ OnlyKeys

\* write_private_key: path.write_bytes(pem)
write_private_key(p) ==
    /\ kgPc[p] = "generated"
    /\ privFile' = kgKey[p]
    /\ privMode' = IF privFile = NoKey THEN "0644" ELSE privMode
    /\ kgWrote' = [kgWrote EXCEPT ![p] = @ \cup {"private"}]
    /\ kgPc' = [kgPc EXCEPT ![p] = "wrote_private"]
    /\ UNCHANGED <<pubFile, kgKey>>
    /\ OnlyKeys

\* write_public_key: path.write_bytes(pem)
write_public_key(p) ==
    /\ kgPc[p] = "wrote_private"
    /\ pubFile' = kgKey[p]
    /\ kgWrote' = [kgWrote EXCEPT ![p] = @ \cup {"public"}]
    /\ kgPc' = [kgPc EXCEPT ![p] = "wrote_public"]
    /\ UNCHANGED <<privFile, privMode, kgKey>>
    /\ OnlyKeys

\* set_permissions: os.chmod(path, 0o600); the run ends
set_permissions(p) ==
    /\ kgPc[p] = "wrote_public"
    /\ privMode' = "0600"
    /\ kgPc' = [kgPc EXCEPT ![p] = "done"]
    /\ UNCHANGED <<privFile, pubFile, kgKey, kgWrote>>
    /\ OnlyKeys

NextKeys ==
    \E p \in KeygenRuns :
        \/ kg_check_private(p)
        \/ kg_check_public(p)
        \/ kg_generate(p)
        \/ write_private_key(p)
        \/ write_public_key(p)
        \/ set_permissions(p)

SpecKeys == InitKeys /\ [][NextKeys]_vars

(* C2: however many runs of generate_keys.main interleave, at most one of    *)
(* them writes the key files (the first writer wins, the others end without  *)
(* writing), and once a key file exists no run changes its content.          *)
C2_FirstWriterWins ==
    /\ [](Cardinality({p \in KeygenRuns : kgWrote[p] # {}}) <= 1)
    /\ [][/\ privFile # NoKey => privFile' = privFile
          /\ pubFile # NoKey => pubFile' = pubFile]_vars

----------------------------------------------------------------------------
(* SpecProof: one run of scripts/generate_proof.py.  A signature names the   *)
(* signing key pair and the message; its encryption names the key pair it    *)
(* was made for as well.                                                     *)

Commits == {"deadbeef", "deadbeee"}

\* artifacts a previous run may have left
OldArtifact == Artifact(<<"old">>)

InitProof ==
    /\ privFile \in {NoKey, GarbageKey, LocalKey}
    /\ instrPubFile \in {NoKey, GarbageKey, InstructorKey}
    /\ gitHead \in {""} \cup Commits
    /\ pfFailAt \in {"none", "commit_hash", "proof_sig", "proof_sig_enc",
                     "readme_proof", "proof_tar"}
    /\ \E old \in {NoArtifact, OldArtifact} :
          /\ commitHashFile = old
          /\ proofSigFile = old
          /\ proofSigEncFile = old
          /\ readmeFile = old
          /\ tarFile = old
    /\ pfPc = "start"
    /\ pfHash = ""
    /\ pfWritten = {}
    /\ ValidateIdle
    /\ TotpIdle
    /\ SeedRestIdle
    /\ KeygenIdle
    /\ FetchIdle

OnlyProof == UNCHANGED <<validateVars, totpVars, seedVars, keygenVars,
                         instrPubFile, gitHead, pfFailAt, fetchVars>>

\* main: the instructor public key must exist
pf_check_instructor ==
    /\ pfPc = "start"
    /\ pfPc' = IF instrPubFile = NoKey THEN "failed" ELSE "checked_instructor"
    /\ UNCHANGED <<commitHashFile, proofSigFile, proofSigEncFile, readmeFile,
                   tarFile, pfHash, pfWritten>>
    /\ OnlyProof

\* main: the student private key must exist
pf_check_private ==
    /\ pfPc = "checked_instructor"
    /\ pfPc' = IF privFile = NoKey THEN "failed" ELSE "checked"
    /\ UNCHANGED <<commitHashFile, proofSigFile, proofSigEncFile, readmeFile,
                   tarFile, pfHash, pfWritten>>
    /\ OnlyProof

\* write_commit_hash: git rev-parse, then path.write_text(commit_hash)
write_commit_hash ==
    /\ pfPc = "checked"
    /\ IF gitHead = "" \/ pfFailAt = "commit_hash"
       THEN /\ pfPc' = "failed"
            /\ UNCHANGED <<commitHashFile, pfHash, pfWritten>>
       ELSE /\ commitHashFile' = Artifact(<<gitHead>>)
            /\ pfHash' = gitHead
            /\ pfWritten' = pfWritten \cup {"commit_hash"}
            /\ pfPc' = "hashed"
    /\ UNCHANGED <<proofSigFile, proofSigEncFile, readmeFile, tarFile>>
    /\ OnlyProof

\* rsa_pss_sign: the signature of message under the key in keyFile
rsa_pss_sign(keyFile, message) ==
    IF keyFile \in {NoKey, GarbageKey} THEN Err("cannot load the private key")
    ELSE Ok(<<"sig", keyFile[1], keyFile[2], message>>)

\* rsa_encrypt_with_public: the Base64 encryption of plaintext for the key in keyFile
rsa_encrypt_with_public(keyFile, plaintext) ==
    IF keyFile \in {NoKey, GarbageKey} THEN Err("cannot load the public key")
    ELSE Ok(<<"enc", keyFile[1], keyFile[2]>> \o plaintext)

\* write_signature, first half: sign and write proof.sig
write_signature_sig ==
    /\ pfPc = "hashed"
    /\ LET signature == rsa_pss_sign(privFile, pfHash)
       IN  IF ~signature.ok \/ pfFailAt = "proof_sig"
           THEN /\ pfPc' = "failed"
                /\ UNCHANGED <<proofSigFile, pfWritten>>
           ELSE /\ proofSigFile' = Artifact(signature.value)
                /\ pfWritten' = pfWritten \cup {"proof_sig"}
                /\ pfPc' = "signed"
    /\ UNCHANGED <<commitHashFile, proofSigEncFile, readmeFile, tarFile, pfHash>>
    /\ OnlyProof

\* write_signature, second half: encrypt for the instructor and write proof.sig.enc
write_signature_enc ==
    /\ pfPc = "signed"
    /\ LET encrypted == rsa_encrypt_with_public(instrPubFile, proofSigFile.data)
       IN  IF ~encrypted.ok \/ pfFailAt = "proof_sig_enc"
           THEN /\ pfPc' = "failed"
                /\ UNCHANGED <<proofSigEncFile, pfWritten>>
           ELSE /\ proofSigEncFile' = Artifact(encrypted.value)
                /\ pfWritten' = pfWritten \cup {"proof_sig_enc"}
                /\ pfPc' = "encrypted"
    /\ UNCHANGED <<commitHashFile, proofSigFile, readmeFile, tarFile, pfHash>>
    /\ OnlyProof

\* write_readme: the summary
write_readme ==
    /\ pfPc = "encrypted"
    /\ IF pfFailAt = "readme_proof"
       THEN /\ pfPc' = "failed"
            /\ UNCHANGED <<readmeFile, pfWritten>>
       ELSE /\ readmeFile' = Artifact(<<"Proof Generation Summary", pfHash>>)
            /\ pfWritten' = pfWritten \cup {"readme_proof"}
            /\ pfPc' = "summarised"
    /\ UNCHANGED <<commitHashFile, proofSigFile, proofSigEncFile, tarFile, pfHash>>
    /\ OnlyProof

\* bundle_artifacts: the archive of the artifacts that exist
bundle_artifacts ==
    /\ pfPc = "summarised"
    /\ IF pfFailAt = "proof_tar"
       THEN /\ pfPc' = "failed"
            /\ UNCHANGED <<tarFile, pfWritten>>
       ELSE /\ tarFile' = Artifact(<<"tar">> \o commitHashFile.data \o proofSigFile.data
                                    \o proofSigEncFile.data \o readmeFile.data)
            /\ pfWritten' = pfWritten \cup {"proof_tar"}
            /\ pfPc' = "bundled"
    /\ UNCHANGED <<commitHashFile, proofSigFile, proofSigEncFile, readmeFile, pfHash>>
    /\ OnlyProof

\* main: print the submission info; the run ends
pf_print ==
    /\ pfPc = "bundled"
    /\ pfPc' = "done"
    /\ UNCHANGED <<commitHashFile, proofSigFile, proofSigEncFile, readmeFile,
                   tarFile, pfHash, pfWritten>>
    /\ OnlyProof

NextProof ==
    \/ pf_check_instructor
    \/ pf_check_private
    \/ write_commit_hash
    \/ write_signature_sig
    \/ write_signature_enc
    \/ write_readme
    \/ bundle_artifacts
    \/ pf_print

SpecProof == InitProof /\ [][NextProof]_vars

(* C3: a run of generate_proof.main that ends in failure (key material       *)
(* missing or unusable, or a failing step) has written no artifact: no       *)
(* commit-hash file, signature, encrypted signature, summary or archive.     *)
C3_FailureWritesNothing ==
    pfPc = "failed" => pfWritten = {}

(***************************************************************************)
(* request_seed.send_request: the seed fetch with its bounded retry.       *)
(***************************************************************************)

MAX_ATTEMPTS == 2
BACKOFF_SECONDS == 2

\* what requests.post can do: return a response with some status, or raise
ResponseStatuses == {200, 404, 500, 503}
PostExceptions == {[type |-> "ConnectionError", status |-> 0],
                   [type |-> "Timeout", status |-> 0]}

\* response.raise_for_status(): an HTTPError for a 4xx or 5xx status
HTTPError(status) == [type |-> "HTTPError", status |-> status]
RaisesForStatus(status) == status >= 400 /\ status < 600

\* entries of srTrace: a request sent, an error logged, a sleep
PostEvent(attempt) ==
    [ev |-> "post", attempt |-> attempt, secs |-> 0, exc |-> NoExc]
ErrorEvent(attempt, exc) ==
    [ev |-> "error", attempt |-> attempt, secs |-> 0, exc |-> exc]
SleepEvent(attempt) ==
    [ev |-> "sleep", attempt |-> attempt, secs |-> BACKOFF_SECONDS, exc |-> NoExc]

\* a plausible slip: the backoff taken after every failed attempt
ShouldSleepAlways(attempt) == TRUE

\* if attempt < MAX_ATTEMPTS: time.sleep(2)
ShouldSleep(attempt) == attempt < MAX_ATTEMPTS

InitFetch ==
    /\ FetchIdle
    /\ ValidateIdle
    /\ TotpIdle
    /\ SeedIdle
    /\ KeygenIdle
    /\ ProofIdle

OnlyFetch == UNCHANGED <<validateVars, totpVars, seedVars, keygenVars, proofVars>>

\* last_exc = None; for attempt in range(1, MAX_ATTEMPTS + 1): first iteration
sr_enter ==
    /\ srPc = "idle"
    /\ srLastExc' = NoExc
    /\ IF 1 <= MAX_ATTEMPTS
       THEN srAttempt' = 1 /\ srPc' = "post"
       ELSE srAttempt' = 0 /\ srPc' = "after_loop"
    /\ UNCHANGED <<srResponse, srExc, srTrace, srResult>>
    /\ OnlyFetch

\* requests.post(...): the request is sent; a response comes back or the
\* call raises (connection failure, timeout after TIMEOUT_SECONDS)
sr_post ==
    /\ srPc = "post"
    /\ srTrace' = Append(srTrace, PostEvent(srAttempt))
    /\ \/ \E st \in ResponseStatuses :
            /\ srResponse' = st
            /\ srPc' = "check"
            /\ UNCHANGED srExc
       \/ \E e \in PostExceptions :
            /\ srExc' = e
            /\ srPc' = "except"
            /\ srResponse' = 0
    /\ UNCHANGED <<srAttempt, srLastExc, srResult>>
    /\ OnlyFetch

\* response.raise_for_status(); return response
sr_check ==
    /\ srPc = "check"
    /\ IF RaisesForStatus(srResponse)
       THEN /\ srExc' = HTTPError(srResponse)
            /\ srPc' = "except"
            /\ UNCHANGED srResult
       ELSE /\ srResult' = [kind |-> "return", status |-> srResponse, exc |-> NoExc]
            /\ srPc' = "returned"
            /\ UNCHANGED srExc
    /\ UNCHANGED <<srAttempt, srResponse, srLastExc, srTrace>>
    /\ OnlyFetch

\* except Exception as exc: last_exc = exc; logging.error(...);
\* then the backoff, or straight on to the next iteration
sr_except ==
    /\ srPc = "except"
    /\ srLastExc' = srExc
    /\ srTrace' = Append(srTrace, ErrorEvent(srAttempt, srExc))
    /\ srPc' = IF ShouldSleep(srAttempt) THEN "sleep" ELSE "next"
    /\ UNCHANGED <<srAttempt, srResponse, srExc, srResult>>
    /\ OnlyFetch

\* time.sleep(2)
sr_sleep ==
    /\ srPc = "sleep"
    /\ srTrace' = Append(srTrace, SleepEvent(srAttempt))
    /\ srPc' = "next"
    /\ UNCHANGED <<srAttempt, srResponse, srExc, srLastExc, srResult>>
    /\ OnlyFetch

\* the for loop takes its next value, or is exhausted
sr_next ==
    /\ srPc = "next"
    /\ IF srAttempt + 1 <= MAX_ATTEMPTS
       THEN srAttempt' = srAttempt + 1 /\ srPc' = "post"
       ELSE srPc' = "after_loop" /\ UNCHANGED srAttempt
    /\ UNCHANGED <<srResponse, srExc, srLastExc, srTrace, srResult>>
    /\ OnlyFetch

\* assert last_exc is not None; raise last_exc
sr_raise ==
    /\ srPc = "after_loop"
    /\ srResult' = IF srLastExc = NoExc
                   THEN [kind |-> "raise", status |-> 0,
                         exc |-> [type |-> "AssertionError", status |-> 0]]
                   ELSE [kind |-> "raise", status |-> 0, exc |-> srLastExc]
    /\ srPc' = "raised"
    /\ UNCHANGED <<srAttempt, srResponse, srExc, srLastExc, srTrace>>
    /\ OnlyFetch

NextFetch ==
    \/ sr_enter
    \/ sr_post
    \/ sr_check
    \/ sr_except
    \/ sr_sleep
    \/ sr_next
    \/ sr_raise

\* the call is one sequential thread: each step it can take, it takes
\* (requests.post is bounded by its timeout, time.sleep by its argument)
SpecFetch == InitFetch /\ [][NextFetch]_vars /\ WF_vars(NextFetch)

\* the requests, the logged failures and the sleeps of the call so far
PostIndices == {i \in 1..Len(srTrace) : srTrace[i].ev = "post"}
ErrorIndices == {i \in 1..Len(srTrace) : srTrace[i].ev = "error"}
SleepIndices == {i \in 1..Len(srTrace) : srTrace[i].ev = "sleep"}
FetchDone == srPc \in {"returned", "raised"}

(* C11: send_request terminates; it sends at most MAX_ATTEMPTS (2)          *)
(* requests; it returns the first successful response at once, with no     *)
(* request or sleep after it (every earlier request has failed); it sleeps *)
(* the fixed backoff only between a failed attempt and the next request,   *)
(* never after the last attempt; and when every request has failed it      *)
(* raises the error of the last attempt.                                   *)
C11_BoundedRetry ==
    /\ <>FetchDone
    /\ [](Cardinality(PostIndices) <= MAX_ATTEMPTS)
    /\ [](\A i \in PostIndices :
             /\ srTrace[i].attempt = Cardinality({j \in PostIndices : j <= i})
             /\ i < Len(srTrace) => srTrace[i + 1] \in
                    {ErrorEvent(srTrace[i].attempt, e) :
                        e \in PostExceptions \cup
                              {HTTPError(st) : st \in ResponseStatuses}})
    /\ [](\A i \in SleepIndices :
             /\ srTrace[i].secs = BACKOFF_SECONDS
             /\ i > 1 /\ srTrace[i - 1].ev = "error"
             /\ srTrace[i].attempt < MAX_ATTEMPTS
             /\ i < Len(srTrace) => srTrace[i + 1].ev = "post")
    /\ [](srPc = "returned" =>
             /\ srTrace # <<>>
             /\ srTrace[Len(srTrace)].ev = "post"
             /\ srResult.kind = "return"
             /\ ~RaisesForStatus(srResult.status)
             /\ srResult.status = srResponse)
    /\ [](srPc = "raised" =>
             /\ Cardinality(PostIndices) = MAX_ATTEMPTS
             /\ Cardinality(ErrorIndices) = MAX_ATTEMPTS
             /\ srResult.kind = "raise"
             /\ srTrace[Len(srTrace)] = ErrorEvent(MAX_ATTEMPTS, srResult.exc))
    /\ [][(srExc' # srExc \/ srPc' = "returned") =>
             /\ srTrace' # <<>>
             /\ srTrace'[Len(srTrace')] = PostEvent(srAttempt')]_vars

\* both attempts have failed, with one backoff between them, and the call
\* has raised the second attempt's error, which differs from the first's
C11_Witness ==
    /\ srPc = "raised"
    /\ srTrace = <<PostEvent(1), ErrorEvent(1, [type |-> "Timeout", status |-> 0]),
                   SleepEvent(1),
                   PostEvent(2), ErrorEvent(2, HTTPError(503))>>
    /\ srResult.exc = HTTPError(503)

=============================================================================
